---------------------------- MODULE Spec2Model ----------------------------
(***************************************************************************)
(* A model of the gadgetbridge_plotter time-series container               *)
(* (dataset_container.py) and of its acceptance tester and filter chain    *)
(* (filter_provider.py).                                                   *)
(*                                                                         *)
(* Time is counted in half minutes: a datetime is an integer number of     *)
(* half minutes, a timedelta an integer number of half minutes, so that    *)
(* timedelta(minutes=1) is 2 and a positive resolution below the floor     *)
(* (30 seconds) is 1.  Values are integers, as delivered by the database   *)
(* columns.                                                                *)
(***************************************************************************)
EXTENDS Integers, Sequences, FiniteSets, TLC

VARIABLES
    c,      \* the container
    ret,    \* the last call: its arguments and what it gave back
    s,      \* the container a caller got from _timeslice_data and kept
    alias,  \* the attributes of s that are the same object as that of c
    arr,    \* the arrays a caller hands to the filter chain
    f,      \* a filter provider that is used on its own
    pt      \* a Datapoint that a caller iterates over

\* the variables only some of the specifications use
aux == <<s, alias, arr, f, pt>>

vars == <<c, ret, s, alias, arr, f, pt>>

---------------------------------------------------------------------------
(* Bounds of the model. *)

\* longest raw list a container is grown to
MaxLen == 3

\* timedelta(minutes=1), in half minutes
OneMinute == 2

\* default of the delta_doublefilter parameter of the heartrate filter
DefaultDelta == 3

\* <<timestamp, value>> handed to append
Samples == {<<0, 1>>, <<2, 1>>, <<2, -1>>}

\* timestamps of the datapoints handed to the acceptance tester on its own
Times == {0, 2}

\* intervals <<timestamp_start, timestamp_end>> handed to _timeslice_data
SliceIntervals == {<<0, 2>>, <<2, 4>>, <<0, 4>>}

\* dataset types a container is constructed with
Types == {"heartrate", "intensity", "steps", "activity"}

\* dataset types handed to the acceptance tester on its own
TesterTypes == {"heartrate", "intensity", "steps", "activity", "timestamp", ""}

\* values handed to the acceptance tester on its own
TesterValues == {-2, -1, 0, 1, 2, 253, 254, 255, 256, 257}

\* <<filter name, keyword arguments>> handed to add_filter; the keyword
\* arguments are a set of <<name, value>> pairs
FilterArgs == {<<"heartrate", {}>>, <<"heartrate", {<<"delta_doublefilter", 1>>}>>,
               <<"median", {}>>}

\* keys handed to __getitem__ (the integers 0 and 1 are written "0" and "1")
Keys == {"timestamps", "values", "0", "2"}

---------------------------------------------------------------------------
(* Optional timedelta: None, or a timedelta of td half minutes. *)

None == [isNone |-> TRUE, td |-> 0]

Td(n) == [isNone |-> FALSE, td |-> n]

\* time_resolution arguments handed to the constructor
CtorResolutions == {None, Td(-2), Td(OneMinute)}

\* time_resolution arguments handed to the time_resolution method
SetResolutions == {None, Td(1), Td(OneMinute), Td(4)}

---------------------------------------------------------------------------
(* Datapoint *)

Datapoint(timestamp, value) == [timestamp |-> timestamp, value |-> value]

---------------------------------------------------------------------------
(* acceptance_tester *)

test_accept_all(datapoint) == TRUE

test_heartrate_lt(datapoint) ==
    ~(datapoint.value >= 255) /\ ~(datapoint.value < 0)

test_heartrate(datapoint) ==
    ~(datapoint.value >= 255) /\ ~(datapoint.value <= 0)

test_intensity(datapoint) == ~(datapoint.value >= 255)

test_steps(datapoint) == ~(datapoint.value < 0)

\* __init__ picks the tester from _tester_map, __call__ applies it
acceptance_tester(tester_type, datapoint) ==
    CASE tester_type = "heartrate" -> test_heartrate(datapoint)
      [] tester_type = "intensity" -> test_intensity(datapoint)
      [] tester_type = "steps"     -> test_steps(datapoint)
      [] OTHER                     -> test_accept_all(datapoint)

---------------------------------------------------------------------------
(* dataset_filter *)

Abs(x) == IF x < 0 THEN -x ELSE x

\* values[i] /= 2. stored back into an integer array: the quotient is cast
\* to the array's integer type, which drops the fraction (toward zero)
HalveInPlace(v) == IF v >= 0 THEN v \div 2 ELSE -((-v) \div 2)

\* the loop of _filter_hr with <= in place of < in both comparisons
RECURSIVE filter_hr_loop_le(_, _, _)
filter_hr_loop_le(values, i, delta_doublefilter) ==
    IF i >= Len(values)
    THEN values
    ELSE LET diff_lower2 == Abs(values[i] - 2 * values[i - 1])
             diff_upper2 == Abs(values[i] - 2 * values[i + 1])
             hit == (diff_lower2 <= 2 * delta_doublefilter)
                    /\ (diff_upper2 <= 2 * delta_doublefilter)
             next_values == IF hit
                            THEN [values EXCEPT ![i] = HalveInPlace(values[i])]
                            ELSE values
         IN  filter_hr_loop_le(next_values, i + 1, delta_doublefilter)

\* the loop of _filter_hr that compares the half as it is stored, without
\* its fraction, with the neighbours
RECURSIVE filter_hr_loop_stored_half(_, _, _)
filter_hr_loop_stored_half(values, i, delta_doublefilter) ==
    IF i >= Len(values)
    THEN values
    ELSE LET diff_lower == Abs(HalveInPlace(values[i]) - values[i - 1])
             diff_upper == Abs(HalveInPlace(values[i]) - values[i + 1])
             hit == (diff_lower < delta_doublefilter)
                    /\ (diff_upper < delta_doublefilter)
             next_values == IF hit
                            THEN [values EXCEPT ![i] = HalveInPlace(values[i])]
                            ELSE values
         IN  filter_hr_loop_stored_half(next_values, i + 1, delta_doublefilter)

\* the loop of _filter_hr from index i on, values being updated in place.
\* abs(float(v)/2. - w) < d is compared as abs(v - 2*w) < 2*d.
RECURSIVE filter_hr_loop(_, _, _)
filter_hr_loop(values, i, delta_doublefilter) ==
    IF i >= Len(values)
    THEN values
    ELSE LET diff_lower2 == Abs(values[i] - 2 * values[i - 1])
             diff_upper2 == Abs(values[i] - 2 * values[i + 1])
             hit == (diff_lower2 < 2 * delta_doublefilter)
                    /\ (diff_upper2 < 2 * delta_doublefilter)
             next_values == IF hit
                            THEN [values EXCEPT ![i] = HalveInPlace(values[i])]
                            ELSE values
         IN  filter_hr_loop(next_values, i + 1, delta_doublefilter)

\* the loop of _filter_hr that tests every index with the neighbours as
\* they were given: given is the array before the pass
RECURSIVE filter_hr_loop_from_given(_, _, _, _)
filter_hr_loop_from_given(given, values, i, delta_doublefilter) ==
    IF i >= Len(values)
    THEN values
    ELSE LET diff_lower2 == Abs(given[i] - 2 * given[i - 1])
             diff_upper2 == Abs(given[i] - 2 * given[i + 1])
             hit == (diff_lower2 < 2 * delta_doublefilter)
                    /\ (diff_upper2 < 2 * delta_doublefilter)
             next_values == IF hit
                            THEN [values EXCEPT ![i] = HalveInPlace(values[i])]
                            ELSE values
         IN  filter_hr_loop_from_given(given, next_values, i + 1, delta_doublefilter)

\* the heartrate filter that tests with the given neighbours
filter_hr_given(timestamps, values, kwargs) ==
    LET given == {p \in kwargs : p[1] = "delta_doublefilter"}
        delta_doublefilter ==
            IF given = {} THEN DefaultDelta ELSE (CHOOSE p \in given : TRUE)[2]
    IN  [timestamps |-> timestamps,
         values |-> filter_hr_loop_from_given(values, values, 2, delta_doublefilter)]

\* _filter_hr(timestamps, values, **kwargs); indices 1..len-2 of the source
\* are 2..Len-1 here
filter_hr(timestamps, values, kwargs) ==
    LET given == {p \in kwargs : p[1] = "delta_doublefilter"}
        delta_doublefilter ==
            IF given = {} THEN DefaultDelta ELSE (CHOOSE p \in given : TRUE)[2]
    IN  [timestamps |-> timestamps,
         values |-> filter_hr_loop(values, 2, delta_doublefilter)]

\* the keys of _filter_map
FilterMap == {"heartrate"}

\* dataset_filter.__init__
dataset_filter_init == [filters |-> <<>>, filter_params |-> {}]

InFilters(self, filtername) ==
    \E k \in 1..Len(self.filters) : self.filters[k] = filtername

\* add_filter that does not look whether the filter is in the chain already
dataset_filter_add_filter_again(self, filtername, kwargs) ==
    IF filtername \in FilterMap
    THEN [filters |-> Append(self.filters, filtername),
          filter_params |-> {p \in self.filter_params : p[1] # filtername}
                            \cup {<<filtername, kwargs>>}]
    ELSE self

\* add_filter that does not look the name up in _filter_map
dataset_filter_add_filter_any(self, filtername, kwargs) ==
    IF ~InFilters(self, filtername)
    THEN [filters |-> Append(self.filters, filtername),
          filter_params |-> {p \in self.filter_params : p[1] # filtername}
                            \cup {<<filtername, kwargs>>}]
    ELSE self

\* dataset_filter.add_filter; _filter_params is a set of <<name, kwargs>>
dataset_filter_add_filter(self, filtername, kwargs) ==
    IF filtername \in FilterMap /\ ~InFilters(self, filtername)
    THEN [filters |-> Append(self.filters, filtername),
          filter_params |-> {p \in self.filter_params : p[1] # filtername}
                            \cup {<<filtername, kwargs>>}]
    ELSE self

ParamsOf(self, filtername) ==
    (CHOOSE p \in self.filter_params : p[1] = filtername)[2]

\* dataset_filter.__call__ from the k-th filter on
RECURSIVE dataset_filter_call_from(_, _, _, _)
dataset_filter_call_from(self, k, timestamps, values) ==
    IF k > Len(self.filters)
    THEN [timestamps |-> timestamps, values |-> values]
    ELSE LET r == filter_hr(timestamps, values, ParamsOf(self, self.filters[k]))
         IN  dataset_filter_call_from(self, k + 1, r.timestamps, r.values)

dataset_filter_call(self, timestamps, values) ==
    dataset_filter_call_from(self, 1, timestamps, values)

\* the caller's arrays after __call__ returned: _filter_hr assigns to the
\* elements of the values array it was given and returns the arrays it was
\* given, so the caller's arrays hold what the call returned
dataset_filter_call_args(self, timestamps, values) ==
    dataset_filter_call(self, timestamps, values)

dataset_filter_count(self) == Len(self.filters)

---------------------------------------------------------------------------
(* DatasetContainer *)

RawTimestamps(raw) == [k \in 1..Len(raw) |-> raw[k].timestamp]

RawValues(raw) == [k \in 1..Len(raw) |-> raw[k].value]

\* _update_filtered_data that puts the timestamps in chronological order
update_filtered_data_sorted(self) ==
    [self EXCEPT !.filtered_data =
        dataset_filter_call(self.filters,
                            SortSeq(RawTimestamps(self.raw_datapoints),
                                    LAMBDA a, b : a < b),
                            RawValues(self.raw_datapoints))]

\* _update_filtered_data that stores the filtered values back into the raw
\* samples
update_filtered_data_writes_back(self) ==
    [self EXCEPT
        !.filtered_data =
            dataset_filter_call(self.filters,
                                RawTimestamps(self.raw_datapoints),
                                RawValues(self.raw_datapoints)),
        !.raw_datapoints =
            [k \in 1..Len(self.raw_datapoints) |->
                Datapoint(self.raw_datapoints[k].timestamp,
                          dataset_filter_call(self.filters,
                                RawTimestamps(self.raw_datapoints),
                                RawValues(self.raw_datapoints)).values[k])]]

\* _update_filtered_data: fresh arrays are built from the raw list and
\* handed to the filter provider
update_filtered_data(self) ==
    [self EXCEPT !.filtered_data =
        dataset_filter_call(self.filters,
                            RawTimestamps(self.raw_datapoints),
                            RawValues(self.raw_datapoints))]

\* __init__(dataset_type, time_resolution)
DatasetContainer(dataset_type, time_resolution) ==
    update_filtered_data(
        [type |-> dataset_type,
         raw_datapoints |-> <<>>,
         index |-> 0,
         time_resolution |-> time_resolution,
         filters |-> dataset_filter_init,
         data_up_to_date |-> TRUE,
         filtered_data |-> [timestamps |-> <<>>, values |-> <<>>]])

\* add_filter
add_filter(self, filter_type, kwargs) ==
    [self EXCEPT !.filters = dataset_filter_add_filter(@, filter_type, kwargs),
                 !.data_up_to_date = FALSE]

\* append that stores the datapoint and leaves the cache flag alone
append_keeps_flag(self, timestamp, value) ==
    LET dp == Datapoint(timestamp, value)
    IN  IF acceptance_tester(self.type, dp)
        THEN [self EXCEPT !.raw_datapoints = Append(@, dp)]
        ELSE self

\* append that stores the datapoint without asking the acceptance tester
append_untested(self, timestamp, value) ==
    [self EXCEPT !.raw_datapoints = Append(@, Datapoint(timestamp, value)),
                 !.data_up_to_date = FALSE]

\* append that marks the cache stale before the acceptance test
append_flag_first(self, timestamp, value) ==
    LET dp == Datapoint(timestamp, value)
    IN  IF acceptance_tester(self.type, dp)
        THEN [self EXCEPT !.raw_datapoints = Append(@, dp),
                          !.data_up_to_date = FALSE]
        ELSE [self EXCEPT !.data_up_to_date = FALSE]

\* append
append(self, timestamp, value) ==
    LET dp == Datapoint(timestamp, value)
    IN  IF acceptance_tester(self.type, dp)
        THEN [self EXCEPT !.raw_datapoints = Append(@, dp),
                          !.data_up_to_date = FALSE]
        ELSE self


\* __getitem__ that recomputes the cache on every read
getitem_always_updates(self, item) ==
    LET self1 == [update_filtered_data(self) EXCEPT !.data_up_to_date = TRUE]
    IN  IF item = "timestamps" \/ item = "0"
        THEN [self |-> self1, raised |-> "", ncalls |-> 1,
              value |-> self1.filtered_data.timestamps]
        ELSE IF item = "values" \/ item = "1"
        THEN [self |-> self1, raised |-> "", ncalls |-> 1,
              value |-> self1.filtered_data.values]
        ELSE [self |-> self1, raised |-> "IndexError", ncalls |-> 1,
              value |-> <<>>]

\* __getitem__ that knows the keys 'timestamps' and 'values' only
getitem_names_only(self, item) ==
    LET self1 == IF ~self.data_up_to_date
                 THEN [update_filtered_data(self) EXCEPT !.data_up_to_date = TRUE]
                 ELSE self
        ncalls == IF ~self.data_up_to_date THEN 1 ELSE 0
    IN  IF item = "timestamps"
        THEN [self |-> self1, raised |-> "", ncalls |-> ncalls,
              value |-> self1.filtered_data.timestamps]
        ELSE IF item = "values"
        THEN [self |-> self1, raised |-> "", ncalls |-> ncalls,
              value |-> self1.filtered_data.values]
        ELSE [self |-> self1, raised |-> "IndexError", ncalls |-> ncalls,
              value |-> <<>>]

\* __getitem__: the cache is recomputed when it is stale, then the key is
\* looked up.  ncalls counts the calls of the filter provider made on the way.
getitem(self, item) ==
    LET stale == ~self.data_up_to_date
        self1 == IF stale
                 THEN [update_filtered_data(self) EXCEPT !.data_up_to_date = TRUE]
                 ELSE self
        ncalls == IF stale THEN 1 ELSE 0
    IN  IF item = "timestamps" \/ item = "0"
        THEN [self |-> self1, raised |-> "", ncalls |-> ncalls,
              value |-> self1.filtered_data.timestamps]
        ELSE IF item = "values" \/ item = "1"
        THEN [self |-> self1, raised |-> "", ncalls |-> ncalls,
              value |-> self1.filtered_data.values]
        ELSE [self |-> self1, raised |-> "IndexError", ncalls |-> ncalls,
              value |-> <<>>]

\* time_resolution that also refuses exactly one minute
time_resolution_le(self, value) ==
    IF ~value.isNone
    THEN IF value.td <= OneMinute
         THEN [self |-> self, raised |-> "ValueError", value |-> None]
         ELSE [self |-> [self EXCEPT !.time_resolution = value],
               raised |-> "", value |-> value]
    ELSE [self |-> self, raised |-> "", value |-> self.time_resolution]

\* time_resolution(value=None)
time_resolution(self, value) ==
    IF ~value.isNone
    THEN IF value.td < OneMinute
         THEN [self |-> self, raised |-> "ValueError", value |-> None]
         ELSE [self |-> [self EXCEPT !.time_resolution = value],
               raised |-> "", value |-> value]
    ELSE [self |-> self, raised |-> "", value |-> self.time_resolution]

\* the loop of _timeslice_data over the masked (timestamp, value) rows,
\* from row k on
RECURSIVE timeslice_loop(_, _, _, _, _, _)
timeslice_loop(res, timestamps, values, timestamp_start, timestamp_end, k) ==
    IF k > Len(timestamps)
    THEN res
    ELSE LET mask == (timestamps[k] >= timestamp_start)
                     /\ (timestamps[k] < timestamp_end)
             res1 == IF mask THEN append(res, timestamps[k], values[k]) ELSE res
         IN  timeslice_loop(res1, timestamps, values,
                            timestamp_start, timestamp_end, k + 1)

\* _timeslice_data(timestamp_start, timestamp_end): self is read twice, a
\* new container of the same type is built, given self's resolution through
\* the time_resolution method and filled through append
timeslice_data(self, timestamp_start, timestamp_end) ==
    LET r1 == getitem(self, "timestamps")
        r2 == getitem(r1.self, "values")
        res0 == DatasetContainer(self.type, Td(OneMinute))
        r3 == time_resolution(res0, time_resolution(r2.self, None).value)
    IN  IF r3.raised # ""
        THEN [self |-> r2.self, raised |-> r3.raised,
              ncalls |-> r1.ncalls + r2.ncalls, res |-> res0]
        ELSE [self |-> r2.self, raised |-> "",
              ncalls |-> r1.ncalls + r2.ncalls,
              res |-> timeslice_loop(r3.self, r1.value, r2.value,
                                     timestamp_start, timestamp_end, 1)]

---------------------------------------------------------------------------
(* The calls: ret holds the last call, its arguments and what it gave back. *)

NoContainer == DatasetContainer("", None)

\* what a Plotter is constructed with: no arrays
NoOut == [timestamps |-> <<>>, values |-> <<>>, bins |-> <<>>, histogram |-> <<>>]

NoRet ==
    [op |-> "", raised |-> "", i1 |-> 0, i2 |-> 0, s |-> "", kw |-> {},
     td |-> None, out_td |-> None, out_arr |-> <<>>, out_bool |-> FALSE,
     out_c |-> NoContainer, ncalls |-> 0, in_arr |-> <<>>, out |-> NoOut]

NoArrays == [timestamps |-> <<>>, values |-> <<>>]

\* no kept slice, no arrays, a filter provider without filters
\* no datapoint is iterated over
NoDatapoint == [timestamp |-> 0, value |-> 0, index |-> 0]

AuxInit ==
    /\ s = NoContainer
    /\ alias = {}
    /\ arr = NoArrays
    /\ f = dataset_filter_init
    /\ pt = NoDatapoint

\* c = DatasetContainer(dataset_type, time_resolution=r)
Init ==
    \E dataset_type \in Types, r \in CtorResolutions :
        /\ c = DatasetContainer(dataset_type, r)
        /\ ret = [NoRet EXCEPT !.op = "init", !.s = dataset_type, !.td = r]
        /\ AuxInit

\* c.append(timestamp, value)
CallAppend(timestamp, value) ==
    /\ Len(append(c, timestamp, value).raw_datapoints) <= MaxLen
    /\ c' = append(c, timestamp, value)
    /\ ret' = [NoRet EXCEPT !.op = "append", !.i1 = timestamp, !.i2 = value]
    /\ UNCHANGED aux

\* c.add_filter(filter_type, **kwargs)
CallAddFilter(filter_type, kwargs) ==
    /\ c' = add_filter(c, filter_type, kwargs)
    /\ ret' = [NoRet EXCEPT !.op = "add_filter", !.s = filter_type,
                            !.kw = kwargs]
    /\ UNCHANGED aux

\* c[item]
CallGetItem(item) ==
    LET r == getitem(c, item)
    IN  /\ c' = r.self
        /\ ret' = [NoRet EXCEPT !.op = "getitem", !.s = item,
                                !.raised = r.raised, !.out_arr = r.value,
                                !.ncalls = r.ncalls]
        /\ UNCHANGED aux

\* c.time_resolution(value)
CallTimeResolution(value) ==
    LET r == time_resolution(c, value)
    IN  /\ c' = r.self
        /\ ret' = [NoRet EXCEPT !.op = "time_resolution", !.td = value,
                                !.raised = r.raised, !.out_td = r.value]
        /\ UNCHANGED aux

\* c._timeslice_data(timestamp_start, timestamp_end)
CallTimeslice(timestamp_start, timestamp_end) ==
    LET r == timeslice_data(c, timestamp_start, timestamp_end)
    IN  /\ c' = r.self
        /\ ret' = [NoRet EXCEPT !.op = "timeslice_data",
                                !.i1 = timestamp_start, !.i2 = timestamp_end,
                                !.raised = r.raised, !.ncalls = r.ncalls,
                                !.out_c = IF r.raised = "" THEN r.res
                                          ELSE NoContainer]
        /\ UNCHANGED aux

Next ==
    \/ \E sample \in Samples : CallAppend(sample[1], sample[2])
    \/ \E a \in FilterArgs : CallAddFilter(a[1], a[2])
    \/ \E item \in Keys : CallGetItem(item)
    \/ \E value \in SetResolutions : CallTimeResolution(value)
    \/ \E interval \in SliceIntervals : CallTimeslice(interval[1], interval[2])

Spec == Init /\ [][Next]_vars

---------------------------------------------------------------------------
(* The acceptance tester on its own: a type, a timestamp and a value are   *)
(* drawn, and the tester of that type is called on the datapoint.          *)

InitTester ==
    \E tester_type \in TesterTypes, timestamp \in Times, value \in TesterValues :
        /\ c = DatasetContainer(tester_type, Td(OneMinute))
        /\ ret = [NoRet EXCEPT !.op = "datapoint", !.s = tester_type,
                               !.i1 = timestamp, !.i2 = value]
        /\ AuxInit

\* acceptance_tester(ret.s)(Datapoint(ret.i1, ret.i2))
TesterCall ==
    /\ ret.op = "datapoint"
    /\ ret' = [ret EXCEPT !.op = "acceptance_tester",
                          !.out_bool = acceptance_tester(ret.s,
                                           Datapoint(ret.i1, ret.i2))]
    /\ UNCHANGED <<c, aux>>

NextTester == TesterCall

SpecTester == InitTester /\ [][NextTester]_vars

---------------------------------------------------------------------------
(* A container and a slice of it that the caller keeps: c is the source,   *)
(* s the container _timeslice_data returned, and both are used further.    *)

\* longest raw list of the source and of the kept slice
MaxPair == 2

\* dataset types of the source
PairTypes == {"heartrate", "activity"}

\* <<timestamp, value>> handed to append of the source and of the slice
PairSamples == {<<0, 1>>, <<2, 1>>}

\* intervals handed to _timeslice_data
PairIntervals == {<<0, 2>>, <<0, 4>>}

\* time_resolution arguments handed to the time_resolution method
PairResolutions == {Td(1), Td(4)}

\* the attributes of a container made by __init__ that are the same object
\* as an attribute of another container: _raw_datapoints is a new list and
\* _filters a new instance of the filter provider
SharedByInit == {}

HasSlice == s.type # ""

\* what a change of container x does to container y when the attributes in
\* alias are one object in both
WriteThrough(y, x) ==
    [y EXCEPT !.raw_datapoints = IF "raw_datapoints" \in alias
                                 THEN x.raw_datapoints ELSE @,
              !.filters = IF "filters" \in alias THEN x.filters ELSE @]

InitPair ==
    \E dataset_type \in PairTypes, r \in CtorResolutions :
        /\ c = DatasetContainer(dataset_type, r)
        /\ ret = [NoRet EXCEPT !.op = "init", !.s = dataset_type, !.td = r]
        /\ AuxInit

\* s = c._timeslice_data(timestamp_start, timestamp_end)
KeepSlice(timestamp_start, timestamp_end) ==
    LET r == timeslice_data(c, timestamp_start, timestamp_end)
    IN  /\ c' = r.self
        /\ s' = IF r.raised = "" THEN r.res ELSE s
        /\ alias' = IF r.raised = "" THEN SharedByInit ELSE alias
        /\ ret' = [NoRet EXCEPT !.op = "timeslice_data",
                                !.i1 = timestamp_start, !.i2 = timestamp_end,
                                !.raised = r.raised]
        /\ UNCHANGED <<arr, f, pt>>

\* c.append(timestamp, value)
SourceAppend(timestamp, value) ==
    /\ Len(append(c, timestamp, value).raw_datapoints) <= MaxPair
    /\ c' = append(c, timestamp, value)
    /\ s' = WriteThrough(s, c')
    /\ ret' = [NoRet EXCEPT !.op = "append", !.i1 = timestamp, !.i2 = value]
    /\ UNCHANGED <<alias, arr, f, pt>>

\* c.add_filter(filter_type, **kwargs)
SourceAddFilter(filter_type, kwargs) ==
    /\ c' = add_filter(c, filter_type, kwargs)
    /\ s' = WriteThrough(s, c')
    /\ ret' = [NoRet EXCEPT !.op = "add_filter", !.s = filter_type,
                            !.kw = kwargs]
    /\ UNCHANGED <<alias, arr, f, pt>>

\* c.time_resolution(value)
SourceTimeResolution(value) ==
    LET r == time_resolution(c, value)
    IN  /\ c' = r.self
        /\ ret' = [NoRet EXCEPT !.op = "time_resolution", !.td = value,
                                !.raised = r.raised, !.out_td = r.value]
        /\ UNCHANGED <<s, alias, arr, f, pt>>

\* s.append(timestamp, value)
SliceAppend(timestamp, value) ==
    /\ HasSlice
    /\ Len(append(s, timestamp, value).raw_datapoints) <= MaxPair
    /\ s' = append(s, timestamp, value)
    /\ c' = WriteThrough(c, s')
    /\ ret' = [NoRet EXCEPT !.op = "s.append", !.i1 = timestamp, !.i2 = value]
    /\ UNCHANGED <<alias, arr, f, pt>>

\* s.add_filter(filter_type, **kwargs)
SliceAddFilter(filter_type, kwargs) ==
    /\ HasSlice
    /\ s' = add_filter(s, filter_type, kwargs)
    /\ c' = WriteThrough(c, s')
    /\ ret' = [NoRet EXCEPT !.op = "s.add_filter", !.s = filter_type,
                            !.kw = kwargs]
    /\ UNCHANGED <<alias, arr, f, pt>>

\* s.time_resolution(value)
SliceTimeResolution(value) ==
    LET r == time_resolution(s, value)
    IN  /\ HasSlice
        /\ s' = r.self
        /\ ret' = [NoRet EXCEPT !.op = "s.time_resolution", !.td = value,
                                !.raised = r.raised, !.out_td = r.value]
        /\ UNCHANGED <<c, alias, arr, f, pt>>

NextPair ==
    \/ \E interval \in PairIntervals : KeepSlice(interval[1], interval[2])
    \/ \E sample \in PairSamples : SourceAppend(sample[1], sample[2])
    \/ SourceAddFilter("heartrate", {})
    \/ \E value \in PairResolutions : SourceTimeResolution(value)
    \/ \E sample \in PairSamples : SliceAppend(sample[1], sample[2])
    \/ SliceAddFilter("heartrate", {})
    \/ \E value \in PairResolutions : SliceTimeResolution(value)

SpecPair == InitPair /\ [][NextPair]_vars

---------------------------------------------------------------------------
(* Iterating a container: for dp in c calls __iter__ once and next until   *)
(* StopIteration; a loop that is left early just stops calling next.       *)

\* __iter__
DatasetContainer_iter(self) == self

\* next
DatasetContainer_next(self) ==
    IF self.index < Len(self.raw_datapoints)
    THEN [self |-> [self EXCEPT !.index = @ + 1], raised |-> "",
          value |-> self.raw_datapoints[self.index + 1]]
    ELSE [self |-> [self EXCEPT !.index = 0], raised |-> "StopIteration",
          value |-> Datapoint(0, 0)]

\* the sequences over S of length up to n
SeqsUpTo(S, n) == UNION {[1..k -> S] : k \in 0..n}

\* the container after append was called with the samples of seq from the
\* k-th on
RECURSIVE AppendAll(_, _, _)
AppendAll(self, seq, k) ==
    IF k > Len(seq)
    THEN self
    ELSE AppendAll(append(self, seq[k][1], seq[k][2]), seq, k + 1)

\* a container of some type that was filled through append
InitIter ==
    \E dataset_type \in Types, seq \in SeqsUpTo(Samples, MaxLen) :
        /\ c = AppendAll(DatasetContainer(dataset_type, Td(OneMinute)), seq, 1)
        /\ ret = [NoRet EXCEPT !.op = "init", !.s = dataset_type]
        /\ AuxInit

\* a for loop over c starts: iter(c).  The loop before it, if any, is left
\* where it was.
IterStart ==
    /\ c' = DatasetContainer_iter(c)
    /\ ret' = [NoRet EXCEPT !.op = "iter"]
    /\ UNCHANGED aux

\* the running loop asks for its next datapoint; ret.i1 counts the calls of
\* next the loop has made
IterNext ==
    LET r == DatasetContainer_next(c)
    IN  /\ ret.op \in {"iter", "next"}
        /\ ret.raised = ""
        /\ c' = r.self
        /\ ret' = [NoRet EXCEPT !.op = "next", !.i1 = ret.i1 + 1,
                                !.raised = r.raised,
                                !.out_arr = IF r.raised = ""
                                            THEN <<r.value.timestamp, r.value.value>>
                                            ELSE <<>>]
        /\ UNCHANGED aux

NextIter ==
    \/ IterStart
    \/ IterNext

SpecIter == InitIter /\ [][NextIter]_vars

---------------------------------------------------------------------------
(* A filter provider used on its own (f), next to a container that is      *)
(* given filters through its add_filter method and read.                   *)

\* f.add_filter(filtername, **kwargs)
FilterAddFilter(filtername, kwargs) ==
    /\ f' = dataset_filter_add_filter(f, filtername, kwargs)
    /\ ret' = [NoRet EXCEPT !.op = "f.add_filter", !.s = filtername,
                            !.kw = kwargs]
    /\ UNCHANGED <<c, s, alias, arr, pt>>

\* f.count()
FilterCount ==
    /\ ret' = [NoRet EXCEPT !.op = "f.count", !.i1 = dataset_filter_count(f)]
    /\ UNCHANGED <<c, aux>>

\* a container of some type that was filled through append, and a new
\* filter provider
InitChain ==
    \E dataset_type \in Types, seq \in SeqsUpTo(Samples, MaxLen) :
        /\ c = AppendAll(DatasetContainer(dataset_type, Td(OneMinute)), seq, 1)
        /\ ret = [NoRet EXCEPT !.op = "init", !.s = dataset_type]
        /\ AuxInit

NextChain ==
    \/ \E a \in FilterArgs : FilterAddFilter(a[1], a[2])
    \/ FilterCount
    \/ \E a \in FilterArgs : CallAddFilter(a[1], a[2])
    \/ \E item \in Keys : CallGetItem(item)

SpecChain == InitChain /\ [][NextChain]_vars

---------------------------------------------------------------------------
(* The filter provider called by hand: a caller builds a provider, keeps   *)
(* two arrays and hands them to the provider, possibly again.              *)

\* longest array handed to the filter provider
MaxArr == 4

\* values of the arrays handed to the filter provider
HrValues == {3, 5, 6, 10}

\* the filter providers a caller can have built with add_filter
Providers ==
    {dataset_filter_init} \cup
    {dataset_filter_add_filter(dataset_filter_init, a[1], a[2]) : a \in FilterArgs}

\* test_values of test_heartrate_filter
TestValues == <<50, 52, 51, 101, 53, 52, 50, 106, 51, 52>>

\* the timestamps of n samples, one per minute
MinuteStamps(n) == [k \in 1..n |-> (k - 1) * OneMinute]

InitHr ==
    \E provider \in Providers, values \in SeqsUpTo(HrValues, MaxArr) \cup {TestValues} :
        /\ c = NoContainer
        /\ ret = [NoRet EXCEPT !.op = "init"]
        /\ s = NoContainer
        /\ alias = {}
        /\ arr = [timestamps |-> MinuteStamps(Len(values)), values |-> values]
        /\ f = provider
        /\ pt = NoDatapoint

\* f(arr.timestamps, arr.values); ret.in_arr is the values array as it was
\* handed over
FilterCall ==
    /\ arr' = dataset_filter_call_args(f, arr.timestamps, arr.values)
    /\ ret' = [NoRet EXCEPT
                  !.op = "f.call", !.in_arr = arr.values,
                  !.out.timestamps =
                      dataset_filter_call(f, arr.timestamps, arr.values).timestamps,
                  !.out.values =
                      dataset_filter_call(f, arr.timestamps, arr.values).values]
    /\ UNCHANGED <<c, s, alias, f, pt>>

NextHr == FilterCall

SpecHr == InitHr /\ [][NextHr]_vars

---------------------------------------------------------------------------
(* Reductions: numpy's sum, mean and median of an array of integers.  A    *)
(* result is a fraction <<numerator, denominator>>; nan, which mean and    *)
(* median give for an empty array, is <<0, 0>>.                            *)

NaN == <<0, 0>>

RECURSIVE SumSeq(_)
SumSeq(values) ==
    IF values = <<>> THEN 0 ELSE Head(values) + SumSeq(Tail(values))

np_sum(values) == <<SumSeq(values), 1>>

np_mean(values) ==
    IF values = <<>> THEN NaN ELSE <<SumSeq(values), Len(values)>>

\* the median is the middle value of the sorted array, or the mean of the
\* two middle values
np_median(values) ==
    LET sorted == SortSeq(values, LAMBDA a, b : a < b)
        n == Len(values)
    IN  IF n = 0 THEN NaN
        ELSE IF n % 2 = 1 THEN <<sorted[(n + 1) \div 2], 1>>
        ELSE <<sorted[n \div 2] + sorted[n \div 2 + 1], 2>>

\* func(values) for the functions the downsample methods hand to
\* _downsample_data
Reduce(func, values) ==
    CASE func = "mean"   -> np_mean(values)
      [] func = "median" -> np_median(values)
      [] func = "sum"    -> np_sum(values)

\* the functions handed to _downsample_data
Funcs == {"mean", "median", "sum"}

---------------------------------------------------------------------------
(* DatasetContainer: time range and downsampling *)

SeqMin(seq) == CHOOSE x \in {seq[k] : k \in 1..Len(seq)} :
                   \A k \in 1..Len(seq) : x <= seq[k]

SeqMax(seq) == CHOOSE x \in {seq[k] : k \in 1..Len(seq)} :
                   \A k \in 1..Len(seq) : x >= seq[k]

\* timestamp_start that gives 0 for a container without samples
timestamp_start_default(self) ==
    LET r == getitem(self, "timestamps")
    IN  IF r.value = <<>>
        THEN [self |-> r.self, raised |-> "", value |-> 0]
        ELSE [self |-> r.self, raised |-> "", value |-> SeqMin(r.value)]

\* timestamp_start: min() of an empty array raises ValueError
timestamp_start(self) ==
    LET r == getitem(self, "timestamps")
    IN  IF r.value = <<>>
        THEN [self |-> r.self, raised |-> "ValueError", value |-> 0]
        ELSE [self |-> r.self, raised |-> "", value |-> SeqMin(r.value)]

\* timestamp_end: max() of an empty array raises ValueError
timestamp_end(self) ==
    LET r == getitem(self, "timestamps")
    IN  IF r.value = <<>>
        THEN [self |-> r.self, raised |-> "ValueError", value |-> 0]
        ELSE [self |-> r.self, raised |-> "", value |-> SeqMax(r.value)]

\* timerange
timerange(self) ==
    LET r1 == timestamp_start(self)
        r2 == timestamp_end(r1.self)
    IN  IF r1.raised # ""
        THEN [self |-> r1.self, raised |-> r1.raised, value |-> <<>>]
        ELSE IF r2.raised # ""
        THEN [self |-> r2.self, raised |-> r2.raised, value |-> <<>>]
        ELSE [self |-> r2.self, raised |-> "", value |-> <<r1.value, r2.value>>]

\* the values of an array as fractions
AsFractions(values) == [k \in 1..Len(values) |-> <<values[k], 1>>]

\* the while loop of _downsample_data from cur_time on.  self was read by
\* timestamp_start before the loop, so its cache is fresh and the reads of
\* the loop leave self as it is.
RECURSIVE downsample_loop(_, _, _, _, _)

\* the body of the loop once sliced_data is there: _timeslice_data raises
\* ValueError when the resolution of self is below one minute
downsample_body(self, func, cur_time, res_timestamps, res_values, resolution, sliced_data) ==
    IF sliced_data.raised # ""
    THEN [self |-> self, raised |-> sliced_data.raised,
          timestamps |-> <<>>, values |-> <<>>]
    ELSE downsample_loop(self, func, cur_time + resolution,
                         Append(res_timestamps, cur_time),
                         Append(res_values,
                                Reduce(func, getitem(sliced_data.res,
                                                     "values").value)))

\* the loop of _downsample_data with while(cur_time < self.timestamp_end())
downsample_loop_lt(self, func, cur_time, res_timestamps, res_values) ==
    IF ~(cur_time < timestamp_end(self).value)
    THEN [self |-> self, raised |-> "",
          timestamps |-> res_timestamps, values |-> res_values]
    ELSE IF self.time_resolution.isNone
    THEN [self |-> self, raised |-> "TypeError",
          timestamps |-> <<>>, values |-> <<>>]
    ELSE downsample_body(self, func, cur_time, res_timestamps, res_values,
                         self.time_resolution.td,
                         timeslice_data(self, cur_time,
                                        cur_time + self.time_resolution.td))

\* cur_time + None raises TypeError
downsample_loop(self, func, cur_time, res_timestamps, res_values) ==
    IF ~(cur_time <= timestamp_end(self).value)
    THEN [self |-> self, raised |-> "",
          timestamps |-> res_timestamps, values |-> res_values]
    ELSE IF self.time_resolution.isNone
    THEN [self |-> self, raised |-> "TypeError",
          timestamps |-> <<>>, values |-> <<>>]
    ELSE downsample_body(self, func, cur_time, res_timestamps, res_values,
                         self.time_resolution.td,
                         timeslice_data(self, cur_time,
                                        cur_time + self.time_resolution.td))

\* _downsample_data(func): the loop runs on self as timestamp_start left
\* it, from the timestamp it returned
downsample_data(self, func) ==
    LET r0 == timestamp_start(self)
    IN  IF r0.raised # ""
        THEN [self |-> r0.self, raised |-> r0.raised,
              timestamps |-> <<>>, values |-> <<>>]
        ELSE CHOOSE looped \in
                 {downsample_loop(self0, func, cur_time, <<>>, <<>>) :
                      self0 \in {r0.self}, cur_time \in {r0.value}} : TRUE

downsample_mean(self) == downsample_data(self, "mean")

downsample_median(self) == downsample_data(self, "median")

downsample_sum(self) == downsample_data(self, "sum")

\* downsample_none
downsample_none(self) ==
    LET r1 == getitem(self, "timestamps")
        r2 == getitem(r1.self, "values")
    IN  [self |-> r2.self, raised |-> "",
         timestamps |-> r1.value, values |-> AsFractions(r2.value)]

\* int(x/10)*10 where the quotient is cut toward zero
int_div10_times10_trunc(x) == IF x >= 0 THEN (x \div 10) * 10 ELSE -(((-x) \div 10) * 10)

\* int(x/10)*10 for an integer x of the values array.  The classes define
\* next(), the iterator protocol of Python 2, and the modules import each
\* other by implicit relative imports, so / of two integers is the floored
\* integer division of Python 2.
int_div10_times10(x) == (x \div 10) * 10

\* arange(start, stop, step) for a positive step
arange(start, stop, step) ==
    LET n == IF stop <= start THEN 0 ELSE ((stop - start - 1) \div step) + 1
    IN  [k \in 1..n |-> start + (k - 1) * step]

\* the number of values in the j-th bin: bins[j] <= v < bins[j+1], and
\* v = bins[j+1] too in the last bin
BinCount(values, bins, j) ==
    Cardinality({k \in 1..Len(values) :
                    /\ bins[j] <= values[k]
                    /\ \/ values[k] < bins[j + 1]
                       \/ j + 1 = Len(bins) /\ values[k] = bins[j + 1]})

\* histogram(values, bins, density=True)[0] divided by its amax: the
\* densities are the counts over the bin width and the number of values in
\* the bins, so the quotient is count over largest count, and 0/0 = nan in
\* every bin when no value is in the bins.  Needs two bin edges at least.
PeakNormalized(values, bins) ==
    LET counts == [j \in 1..(Len(bins) - 1) |-> BinCount(values, bins, j)]
        peak == SeqMax(counts)
    IN  [j \in 1..(Len(bins) - 1) |-> <<counts[j], peak>>]

\* the while loop of downsample_histogram from cur_time on.  self was read
\* by timestamp_start before the loop, so its cache is fresh and the reads
\* of the loop leave self as it is.
RECURSIVE histogram_loop(_, _, _, _, _)

\* the body of the loop once sliced_data is there: _timeslice_data raises
\* ValueError when the resolution of self is below one minute; with less
\* than two bin edges the histogram is empty and amax raises ValueError
histogram_body(self, bins, cur_time, res_timestamps, res_histogram, resolution, sliced_data) ==
    IF sliced_data.raised # ""
    THEN [self |-> self, raised |-> sliced_data.raised,
          timestamps |-> <<>>, histogram |-> <<>>]
    ELSE IF Len(bins) < 2
    THEN [self |-> self, raised |-> "ValueError",
          timestamps |-> <<>>, histogram |-> <<>>]
    ELSE histogram_loop(self, bins, cur_time + resolution,
                        Append(res_timestamps, cur_time),
                        Append(res_histogram,
                               PeakNormalized(getitem(sliced_data.res,
                                                      "values").value, bins)))

\* cur_time + None raises TypeError
histogram_loop(self, bins, cur_time, res_timestamps, res_histogram) ==
    IF ~(cur_time <= timestamp_end(self).value)
    THEN [self |-> self, raised |-> "",
          timestamps |-> res_timestamps, histogram |-> res_histogram]
    ELSE IF self.time_resolution.isNone
    THEN [self |-> self, raised |-> "TypeError",
          timestamps |-> <<>>, histogram |-> <<>>]
    ELSE histogram_body(self, bins, cur_time, res_timestamps, res_histogram,
                        self.time_resolution.td,
                        timeslice_data(self, cur_time,
                                       cur_time + self.time_resolution.td))

\* downsample_histogram(hist_min, hist_max, resolution); hist_min and
\* hist_max are optional numbers, written like optional timedeltas.  amin
\* and amax of an empty array raise ValueError.
downsample_histogram(self, hist_min, hist_max, resolution) ==
    LET r1 == getitem(self, "values")
        self1 == IF hist_min.isNone THEN r1.self ELSE self
        lo == IF hist_min.isNone THEN int_div10_times10(SeqMin(r1.value))
              ELSE hist_min.td
        r2 == getitem(self1, "values")
        self2 == IF hist_max.isNone THEN r2.self ELSE self1
        hi == IF hist_max.isNone THEN int_div10_times10(SeqMax(r2.value))
              ELSE hist_max.td
        bins == arange(lo, hi, resolution)
        r0 == timestamp_start(self2)
        failed(self3, raised) ==
            [self |-> self3, raised |-> raised, timestamps |-> <<>>,
             bins |-> <<>>, histogram |-> <<>>]
        finished(looped, edges) ==
            IF looped.raised # "" THEN failed(looped.self, looped.raised)
            ELSE [self |-> looped.self, raised |-> "",
                  timestamps |-> Append(looped.timestamps,
                                        timestamp_end(looped.self).value),
                  bins |-> edges, histogram |-> looped.histogram]
    IN  IF hist_min.isNone /\ r1.value = <<>> THEN failed(self1, "ValueError")
        ELSE IF hist_max.isNone /\ r2.value = <<>> THEN failed(self2, "ValueError")
        ELSE IF r0.raised # "" THEN failed(r0.self, r0.raised)
        ELSE CHOOSE res \in
                 {finished(looped, edges) :
                      edges \in {bins},
                      looped \in {histogram_loop(self0, edges0, cur_time, <<>>, <<>>) :
                                     self0 \in {r0.self}, edges0 \in {bins},
                                     cur_time \in {r0.value}}} : TRUE

---------------------------------------------------------------------------
(* A container that is filled, filtered, read, sliced and downsampled.     *)

\* dataset types of the downsampled container
DsTypes == {"heartrate", "activity"}

\* <<timestamp, value>> handed to append of the downsampled container
DsSamples == {<<0, 1>>, <<2, 1>>, <<6, 3>>}

\* an optional number that is given, written like a timedelta
Num(n) == [isNone |-> FALSE, td |-> n]

\* <<hist_min, hist_max, resolution>> handed to downsample_histogram
HistArgs == {<<None, None, 5>>, <<Num(1), Num(4), 1>>, <<Num(1), Num(12), 1>>}

\* the container of the downsampling tests: activity, the values 1..11 at
\* eleven consecutive minutes, a resolution of five minutes
Fixture ==
    time_resolution(
        AppendAll(DatasetContainer("activity", Td(OneMinute)),
                  [k \in 1..11 |-> <<(k - 1) * OneMinute, k>>], 1),
        Td(5 * OneMinute)).self

InitDs ==
    /\ \/ \E dataset_type \in DsTypes, r \in CtorResolutions :
              c = DatasetContainer(dataset_type, r)
       \/ c = Fixture
    /\ ret = [NoRet EXCEPT !.op = "init"]
    /\ AuxInit

\* c.timestamp_start()
CallTimestampStart ==
    LET r == timestamp_start(c)
    IN  /\ c' = r.self
        /\ ret' = [NoRet EXCEPT !.op = "timestamp_start", !.raised = r.raised,
                                !.i1 = r.value]
        /\ UNCHANGED aux

\* c.timestamp_end()
CallTimestampEnd ==
    LET r == timestamp_end(c)
    IN  /\ c' = r.self
        /\ ret' = [NoRet EXCEPT !.op = "timestamp_end", !.raised = r.raised,
                                !.i1 = r.value]
        /\ UNCHANGED aux

\* c.timerange()
CallTimerange ==
    LET r == timerange(c)
    IN  /\ c' = r.self
        /\ ret' = [NoRet EXCEPT !.op = "timerange", !.raised = r.raised,
                                !.out_arr = r.value]
        /\ UNCHANGED aux

\* c.downsample_mean(), c.downsample_median(), c.downsample_sum()
CallDownsample(func) ==
    \E r \in {CASE func = "mean"   -> downsample_mean(c)
                [] func = "median" -> downsample_median(c)
                [] func = "sum"    -> downsample_sum(c)} :
        /\ c' = r.self
        /\ ret' = [NoRet EXCEPT !.op = "downsample", !.s = func,
                                !.raised = r.raised,
                                !.out.timestamps = r.timestamps,
                                !.out.values = r.values]
        /\ UNCHANGED aux

\* c.downsample_none()
CallDownsampleNone ==
    \E r \in {downsample_none(c)} :
        /\ c' = r.self
        /\ ret' = [NoRet EXCEPT !.op = "downsample", !.s = "none",
                                !.raised = r.raised,
                                !.out.timestamps = r.timestamps,
                                !.out.values = r.values]
        /\ UNCHANGED aux

\* c.downsample_histogram(hist_min, hist_max, resolution)
CallDownsampleHistogram(hist_min, hist_max, resolution) ==
    \E r \in {downsample_histogram(c, hist_min, hist_max, resolution)} :
        /\ c' = r.self
        /\ ret' = [NoRet EXCEPT !.op = "downsample_histogram",
                                !.td = hist_min, !.out_td = hist_max,
                                !.i1 = resolution, !.raised = r.raised,
                                !.out.timestamps = r.timestamps,
                                !.out.bins = r.bins,
                                !.out.histogram = r.histogram]
        /\ UNCHANGED aux

NextDs ==
    \/ \E sample \in DsSamples : CallAppend(sample[1], sample[2])
    \/ CallAddFilter("heartrate", {})
    \/ CallGetItem("values")
    \/ CallTimeResolution(Td(2 * OneMinute))
    \/ CallTimeslice(0, 2 * OneMinute)
    \/ CallTimestampStart
    \/ CallTimestampEnd
    \/ CallTimerange
    \/ \E func \in Funcs : CallDownsample(func)
    \/ CallDownsampleNone
    \/ \E a \in HistArgs : CallDownsampleHistogram(a[1], a[2], a[3])

SpecDs == InitDs /\ [][NextDs]_vars

---------------------------------------------------------------------------
(* Histogram bounds: containers of a type that accepts every value, with   *)
(* negative values too, and downsample_histogram with hist_min or hist_max *)
(* left out.                                                               *)

\* values appended to the containers of the histogram bounds
HistValues == {-15, -5, 7, 87}

\* <<hist_min, hist_max, resolution>> with a bound left out
HistDefaults == {<<None, None, 5>>, <<Num(-30), None, 5>>, <<None, Num(90), 5>>}

InitHist ==
    /\ \E values \in SeqsUpTo(HistValues, MaxLen) :
           c = AppendAll(DatasetContainer("activity", Td(OneMinute)),
                         [k \in 1..Len(values) |-> <<(k - 1) * OneMinute, values[k]>>], 1)
    /\ ret = [NoRet EXCEPT !.op = "init"]
    /\ AuxInit

NextHist ==
    \/ \E a \in HistDefaults : CallDownsampleHistogram(a[1], a[2], a[3])
    \/ CallGetItem("values")

SpecHist == InitHist /\ [][NextHist]_vars

---------------------------------------------------------------------------
(* Reads with every kind of key on containers that are filled and filtered *)

\* keys handed to __getitem__: the four valid ones (the integers 0 and 1
\* are written "0" and "1") and two others
ReadKeys == {"timestamps", "0", "values", "1", "2", "time"}

InitKeys ==
    /\ \E dataset_type \in DsTypes : c = DatasetContainer(dataset_type, Td(OneMinute))
    /\ ret = [NoRet EXCEPT !.op = "init"]
    /\ AuxInit

NextKeys ==
    \/ \E sample \in Samples : CallAppend(sample[1], sample[2])
    \/ CallAddFilter("heartrate", {})
    \/ \E item \in ReadKeys : CallGetItem(item)

SpecKeys == InitKeys /\ [][NextKeys]_vars

---------------------------------------------------------------------------
(* Datapoint as an iterator: the datapoint with its _index, which next()   *)
(* moves and which __iter__ leaves alone.                                  *)

\* Datapoint.__init__ with the position of the iteration
Datapoint_init(timestamp, value) ==
    [timestamp |-> timestamp, value |-> value, index |-> 0]

\* Datapoint.__iter__
Datapoint_iter(self) == self

\* Datapoint.next
Datapoint_next(self) ==
    IF self.index = 0
    THEN [self |-> [self EXCEPT !.index = 1], raised |-> "", value |-> self.timestamp]
    ELSE IF self.index = 1
    THEN [self |-> [self EXCEPT !.index = 2], raised |-> "", value |-> self.value]
    ELSE [self |-> [self EXCEPT !.index = 0], raised |-> "StopIteration", value |-> 0]

\* the third call of next that ts, val = dp makes: it has to raise
\* StopIteration, a third item is "too many values to unpack"
unpack_end(first, second, third) ==
    IF third.raised = ""
    THEN [self |-> third.self, raised |-> "ValueError", value |-> <<>>]
    ELSE [self |-> third.self, raised |-> "", value |-> <<first.value, second.value>>]

\* the second call of next: StopIteration is "need more than 1 value"
unpack_second(first, second) ==
    IF second.raised # ""
    THEN [self |-> second.self, raised |-> "ValueError", value |-> <<>>]
    ELSE unpack_end(first, second, Datapoint_next(second.self))

\* ts, val = dp: iter(dp), then next() until two items are there and once
\* more; StopIteration at the first call is "need more than 0 values"
unpack(self) ==
    IF Datapoint_next(Datapoint_iter(self)).raised # ""
    THEN [self |-> Datapoint_next(Datapoint_iter(self)).self, raised |-> "ValueError", value |-> <<>>]
    ELSE unpack_second(Datapoint_next(Datapoint_iter(self)),
                       Datapoint_next(Datapoint_next(Datapoint_iter(self)).self))

\* values of the datapoints that are iterated over
DpValues == {-1, 0, 1, 2, 255}

\* timestamps of the datapoints that are iterated over
DpTimes == {0, 2, 4, 6}

InitDp ==
    /\ c = NoContainer
    /\ ret = [NoRet EXCEPT !.op = "init"]
    /\ s = NoContainer
    /\ alias = {}
    /\ arr = NoArrays
    /\ f = dataset_filter_init
    /\ \E timestamp \in DpTimes, value \in DpValues : pt = Datapoint_init(timestamp, value)

\* one step of a loop over the datapoint: iter(dp).next()
DpNext ==
    /\ pt' = Datapoint_next(Datapoint_iter(pt)).self
    /\ ret' = [NoRet EXCEPT !.op = "dp.next",
                            !.raised = Datapoint_next(Datapoint_iter(pt)).raised,
                            !.i1 = Datapoint_next(Datapoint_iter(pt)).value]
    /\ UNCHANGED <<c, s, alias, arr, f>>

\* ts, val = dp
DpUnpack ==
    /\ pt' = unpack(pt).self
    /\ ret' = [NoRet EXCEPT !.op = "dp.unpack", !.raised = unpack(pt).raised,
                            !.out_arr = unpack(pt).value]
    /\ UNCHANGED <<c, s, alias, arr, f>>

NextDp ==
    \/ DpNext
    \/ DpUnpack

SpecDp == InitDp /\ [][NextDp]_vars

---------------------------------------------------------------------------
(* The while loops of _downsample_data and downsample_histogram, one       *)
(* iteration per step.  While a loop runs ret.op is "loop", ret.s is the   *)
(* function, ret.i1 is cur_time and ret.out holds the results so far; when *)
(* the call is over ret.op is "loop.end".                                  *)

\* time resolutions the containers of the loops were constructed with
LoopResolutions == {None, Td(-2), Td(0), Td(OneMinute), Td(2 * OneMinute)}

\* what the loops are run for: the functions of _downsample_data and the
\* histogram
LoopFuncs == Funcs \cup {"histogram"}

\* bins of the histogram loop: arange(hist_min, hist_max, resolution)
LoopBins == arange(1, 4, 1)

InitLoop ==
    /\ \E dataset_type \in DsTypes, r \in LoopResolutions, seq \in SeqsUpTo(DsSamples, MaxLen) :
           /\ seq # <<>>
           /\ c = getitem(AppendAll(DatasetContainer(dataset_type, r), seq, 1), "timestamps").self
    /\ ret = [NoRet EXCEPT !.op = "init"]
    /\ AuxInit

\* the call up to the loop: cur_time = self.timestamp_start() and the
\* empty result lists
LoopStart(func) ==
    /\ ret.op # "loop"
    /\ \E r \in {timestamp_start(c)} :
           /\ c' = r.self
           /\ ret' = IF r.raised # ""
                     THEN [NoRet EXCEPT !.op = "loop.end", !.s = func, !.raised = r.raised]
                     ELSE [NoRet EXCEPT !.op = "loop", !.s = func, !.i1 = r.value,
                                        !.out.bins = IF func = "histogram" THEN LoopBins ELSE <<>>]
    /\ UNCHANGED aux

\* the call is over with an exception
LoopRaise(raised) == [NoRet EXCEPT !.op = "loop.end", !.s = ret.s, !.raised = raised]

\* sliced_data['values'] of an iteration
LoopValues(sliced_data) == getitem(sliced_data.res, "values").value

\* one iteration with sliced_data = self._timeslice_data(cur_time,
\* cur_time + resolution)
LoopBody(resolution, sliced_data) ==
    IF sliced_data.raised # ""
    THEN LoopRaise(sliced_data.raised)
    ELSE IF ret.s = "histogram"
    THEN IF Len(ret.out.bins) < 2
         THEN LoopRaise("ValueError")
         ELSE [ret EXCEPT !.i1 = @ + resolution,
                          !.out.timestamps = Append(@, ret.i1),
                          !.out.histogram =
                              Append(@, PeakNormalized(LoopValues(sliced_data), ret.out.bins))]
    ELSE [ret EXCEPT !.i1 = @ + resolution,
                     !.out.timestamps = Append(@, ret.i1),
                     !.out.values = Append(@, Reduce(ret.s, LoopValues(sliced_data)))]

\* the test of the while loop and, when it holds, one iteration; when it
\* fails the call returns (the histogram with timestamp_end() added)
LoopStep ==
    /\ ret.op = "loop"
    /\ \E end \in {timestamp_end(c).value} :
           IF ~(ret.i1 <= end)
           THEN ret' = [ret EXCEPT !.op = "loop.end",
                                   !.out.timestamps = IF ret.s = "histogram" THEN Append(@, end) ELSE @]
           ELSE IF c.time_resolution.isNone
           THEN ret' = LoopRaise("TypeError")
           ELSE \E sliced_data \in {timeslice_data(c, ret.i1, ret.i1 + c.time_resolution.td)} :
                    ret' = LoopBody(c.time_resolution.td, sliced_data)
    /\ UNCHANGED <<c, aux>>

NextLoop ==
    \/ \E func \in LoopFuncs : LoopStart(func)
    \/ LoopStep

SpecLoop == InitLoop /\ [][NextLoop]_vars

\* a loop that was entered goes on: the interpreter runs the call to its
\* end
SpecLoopFair == SpecLoop /\ WF_vars(LoopStep)

---------------------------------------------------------------------------
(* Slices and windows of a container with the heartrate filter: the values *)
(* 3, 6, 3 are filtered to 3, 3, 3, and filtering these again would give   *)
(* 3, 1, 3.                                                                *)

\* <<timestamp, value>> handed to append of the filtered container
OnceSamples == {<<0, 3>>, <<2, 1>>, <<2, 6>>, <<4, 3>>}

\* time resolutions the filtered container is constructed with
OnceResolutions == {Td(OneMinute), Td(3 * OneMinute)}

\* <<timestamp_start, timestamp_end>> handed to _timeslice_data
OnceIntervals == {<<0, 6>>, <<2, 6>>}

InitOnce ==
    /\ \E dataset_type \in DsTypes, r \in OnceResolutions :
           c = DatasetContainer(dataset_type, r)
    /\ ret = [NoRet EXCEPT !.op = "init"]
    /\ AuxInit

NextOnce ==
    \/ \E sample \in OnceSamples : CallAppend(sample[1], sample[2])
    \/ CallAddFilter("heartrate", {})
    \/ CallGetItem("values")
    \/ \E interval \in OnceIntervals : CallTimeslice(interval[1], interval[2])
    \/ \E func \in Funcs : CallDownsample(func)

SpecOnce == InitOnce /\ [][NextOnce]_vars

---------------------------------------------------------------------------
(* The heartrate filter called on one array after the other, as a test     *)
(* would do over a table of inputs: the arrays of MaxArr values from       *)
(* PassValues, in counting order.  ret.i1 is the number of arrays done.    *)

\* the values of the arrays
PassValues == <<0, 1, 3, 5, 6, 10>>

RECURSIVE Power(_, _)
Power(b, n) == IF n = 0 THEN 1 ELSE b * Power(b, n - 1)

\* how many arrays there are
PassCount == Power(Len(PassValues), MaxArr)

\* array number n, from 0 on
PassArray(n) ==
    [k \in 1..MaxArr |-> PassValues[((n \div Power(Len(PassValues), k - 1)) % Len(PassValues)) + 1]]

\* ds_filter = DatasetFilter(); ds_filter.add_filter('heartrate')
InitPass ==
    /\ c = NoContainer
    /\ ret = [NoRet EXCEPT !.op = "init"]
    /\ s = NoContainer
    /\ alias = {}
    /\ arr = NoArrays
    /\ f = dataset_filter_add_filter(dataset_filter_init, "heartrate", {})
    /\ pt = NoDatapoint

\* res_times, res_values = ds_filter(test_times, test_values) on the next
\* array
PassCall ==
    /\ ret.i1 < PassCount
    /\ \E values \in {PassArray(ret.i1)} :
           /\ arr' = dataset_filter_call_args(f, MinuteStamps(MaxArr), values)
           /\ ret' = [NoRet EXCEPT !.op = "f.call", !.i1 = ret.i1 + 1,
                                   !.in_arr = values,
                                   !.out = [NoOut EXCEPT !.timestamps = arr'.timestamps,
                                                         !.values = arr'.values]]
    /\ UNCHANGED <<c, s, alias, f, pt>>

NextPass == PassCall

SpecPass == InitPass /\ [][NextPass]_vars

\* the table of inputs is gone through to its end
SpecPassFair == SpecPass /\ WF_vars(PassCall)

---------------------------------------------------------------------------
(* Properties *)

\* the filter chain applied to the raw samples of a container, in raw-list
\* order
FilterChainOfRaw(self) ==
    dataset_filter_call(self.filters,
                        RawTimestamps(self.raw_datapoints),
                        RawValues(self.raw_datapoints))

IsTimestampsKey(item) == item \in {"timestamps", "0"}

\* C1: whenever the cache of the container is marked fresh it equals the
\* filter chain applied to the raw samples in raw-list order, and a read
\* with a valid key returns that array of the filter chain's result.
C1_CacheIsFilterChainOfRaw ==
    /\ c.data_up_to_date => c.filtered_data = FilterChainOfRaw(c)
    /\ (ret.op = "getitem" /\ ret.raised = "") =>
           ret.out_arr = IF IsTimestampsKey(ret.s)
                         THEN FilterChainOfRaw(c).timestamps
                         ELSE FilterChainOfRaw(c).values

\* a read that followed appends and add_filter, served a filtered array
\* that differs from the raw values
C1_Witness ==
    /\ ret.op = "getitem" /\ ret.s = "values"
    /\ Len(c.raw_datapoints) = 3
    /\ c.filters.filters # <<>>
    /\ c.data_up_to_date
    /\ ret.out_arr # RawValues(c.raw_datapoints)

\* the table of the acceptance rules: the type rejects the value
Rejects(dataset_type, value) ==
    \/ dataset_type = "heartrate" /\ (value >= 255 \/ value <= 0)
    \/ dataset_type = "intensity" /\ value >= 255
    \/ dataset_type = "steps" /\ value < 0

AllAccepted(self) ==
    \A k \in 1..Len(self.raw_datapoints) :
        acceptance_tester(self.type, self.raw_datapoints[k])

\* C3: every sample of the raw list satisfies the acceptance predicate of
\* the container's type, the type never changes, and a step changes the raw
\* list only by an append adding the appended sample at the end when the
\* predicate accepts it (so the raw list is the accepted appended samples
\* in append order).
C3_RawIsAcceptedAppends ==
    /\ AllAccepted(c)
    /\ [][/\ AllAccepted(c')
          /\ AllAccepted(ret'.out_c)
          /\ c'.type = c.type
          /\ c'.raw_datapoints =
                IF ret'.op = "append"
                   /\ acceptance_tester(c.type, Datapoint(ret'.i1, ret'.i2))
                THEN Append(c.raw_datapoints, Datapoint(ret'.i1, ret'.i2))
                ELSE c.raw_datapoints]_vars

\* a rejected append on a container that already holds accepted samples
C3_Witness ==
    /\ ret.op = "append"
    /\ ~acceptance_tester(c.type, Datapoint(ret.i1, ret.i2))
    /\ Len(c.raw_datapoints) = 2

\* C4: an append of a rejected sample raises nothing and leaves the whole
\* container as it was; an append of an accepted sample adds the sample at
\* the end of the raw list, marks the cache stale and leaves the rest; and
\* the raw list grows in no other step.
C4_RejectedAppendIsNoOp ==
    [][/\ ret'.op = "append" =>
            /\ ret'.raised = ""
            /\ IF acceptance_tester(c.type, Datapoint(ret'.i1, ret'.i2))
               THEN /\ c'.raw_datapoints =
                          Append(c.raw_datapoints, Datapoint(ret'.i1, ret'.i2))
                    /\ ~c'.data_up_to_date
                    /\ c'.filtered_data = c.filtered_data
                    /\ c'.filters = c.filters
                    /\ c'.time_resolution = c.time_resolution
               ELSE c' = c
       /\ Len(c'.raw_datapoints) > Len(c.raw_datapoints) =>
            /\ ret'.op = "append"
            /\ acceptance_tester(c.type, Datapoint(ret'.i1, ret'.i2))]_vars

\* a rejected append on a container with samples, a filter and a fresh cache
C4_Witness ==
    /\ ret.op = "append"
    /\ ~acceptance_tester(c.type, Datapoint(ret.i1, ret.i2))
    /\ c.data_up_to_date
    /\ Len(c.raw_datapoints) > 0
    /\ c.filters.filters # <<>>

\* C5: with no filter registered a read returns the timestamps (the values)
\* of the raw samples in append order.
C5_RoundTripNoFilter ==
    (ret.op = "getitem" /\ ret.raised = "" /\ c.filters.filters = <<>>) =>
        ret.out_arr = IF IsTimestampsKey(ret.s)
                      THEN RawTimestamps(c.raw_datapoints)
                      ELSE RawValues(c.raw_datapoints)

\* a read of the timestamps of three samples appended out of chronological
\* order, no filter registered
C5_Witness ==
    /\ ret.op = "getitem" /\ ret.s = "timestamps"
    /\ c.filters.filters = <<>>
    /\ ret.out_arr = <<2, 0, 2>>

\* the step is a read of the container (a __getitem__, or the two reads
\* that _timeslice_data makes)
IsReadStep(op) == op \in {"getitem", "timeslice_data"}

\* C6: an accepted append and every add_filter leave the cache stale; a
\* read on a stale cache calls the filter chain once and leaves the cache
\* fresh; a read on a fresh cache does not call it and leaves the container
\* as it is; no other step calls the filter chain; and two reads in a row
\* with the same key return the same array.
C6_CacheStateMachine ==
    [][/\ (ret'.op = "add_filter"
           \/ (ret'.op = "append"
               /\ acceptance_tester(c.type, Datapoint(ret'.i1, ret'.i2))))
          => ~c'.data_up_to_date
       /\ (IsReadStep(ret'.op) /\ ~c.data_up_to_date)
          => (ret'.ncalls = 1 /\ c'.data_up_to_date)
       /\ (IsReadStep(ret'.op) /\ c.data_up_to_date)
          => (ret'.ncalls = 0 /\ c' = c)
       /\ ~IsReadStep(ret'.op) => ret'.ncalls = 0
       /\ (ret.op = "getitem" /\ ret'.op = "getitem" /\ ret'.s = ret.s)
          => ret'.out_arr = ret.out_arr]_vars

\* a read served from the fresh cache of a container with a filter
C6_Witness ==
    /\ ret.op = "getitem" /\ ret.raised = ""
    /\ ret.ncalls = 0
    /\ c.data_up_to_date
    /\ c.filters.filters # <<>>
    /\ Len(c.raw_datapoints) = 3

AtLeastOneMinute(self) ==
    ~self.time_resolution.isNone /\ self.time_resolution.td >= OneMinute

\* C7: the time resolution of the container, and of every container
\* returned by _timeslice_data, is at least one minute.
C7_ResolutionFloor ==
    /\ AtLeastOneMinute(c)
    /\ (ret.op = "timeslice_data" /\ ret.raised = "") => AtLeastOneMinute(ret.out_c)

\* C8: time_resolution(v) with v >= 1 minute stores v and returns it; with
\* v < 1 minute it raises ValueError and leaves the container, hence what
\* the getter returns, as before; without an argument it leaves the
\* container as it is and returns the stored value.
C8_TimeResolutionSetter ==
    [][ret'.op = "time_resolution" =>
         IF ret'.td.isNone
         THEN /\ ret'.raised = ""
              /\ c' = c
              /\ ret'.out_td = c.time_resolution
         ELSE IF ret'.td.td >= OneMinute
         THEN /\ ret'.raised = ""
              /\ ret'.out_td = ret'.td
              /\ c' = [c EXCEPT !.time_resolution = ret'.td]
              /\ time_resolution(c', None).value = ret'.td
         ELSE /\ ret'.raised = "ValueError"
              /\ c' = c
              /\ time_resolution(c', None).value
                     = time_resolution(c, None).value]_vars

\* a refused setter call on a container whose resolution had been set
C8_Witness ==
    /\ ret.op = "time_resolution"
    /\ ret.raised = "ValueError"
    /\ c.time_resolution = Td(4)

\* the (timestamp, value) rows of two parallel arrays
Rows(timestamps, values) ==
    [k \in 1..Len(timestamps) |-> <<timestamps[k], values[k]>>]

\* the rows a read of the container gives
ReadRows(self) ==
    Rows(getitem(self, "timestamps").value, getitem(self, "values").value)

\* a is b with some elements left out
RECURSIVE IsSubseq(_, _)
IsSubseq(a, b) ==
    IF a = <<>> THEN TRUE
    ELSE IF b = <<>> THEN FALSE
    ELSE IF Head(a) = Head(b) THEN IsSubseq(Tail(a), Tail(b))
    ELSE IsSubseq(a, Tail(b))

Count(rows, t) == Cardinality({k \in 1..Len(rows) : rows[k][1] = t})

\* resolutions with which _timeslice_data returns a container
SliceableResolutions == {None, Td(OneMinute), Td(4)}

\* C9: the container returned by _timeslice_data(start, end) reads only
\* samples with start <= timestamp < end, holds every sample of the source's
\* filtered view whose timestamp is start and none whose timestamp is end,
\* in the order of the source's filtered view, and is the same whatever the
\* source's time resolution is.
C9_HalfOpenSlice ==
    (ret.op = "timeslice_data" /\ ret.raised = "") =>
        LET sliced == ReadRows(ret.out_c)
            source == ReadRows(c)
        IN  /\ \A k \in 1..Len(sliced) :
                   ret.i1 <= sliced[k][1] /\ sliced[k][1] < ret.i2
            /\ Count(sliced, ret.i1) = Count(source, ret.i1)
            /\ Count(sliced, ret.i2) = 0
            /\ IsSubseq(sliced, source)
            /\ \A r \in SliceableResolutions :
                   ReadRows(timeslice_data([c EXCEPT !.time_resolution = r],
                                           ret.i1, ret.i2).res) = sliced

InInterval(row, t_start, t_end) ==
    t_start <= row[1] /\ row[1] < t_end

\* C10: the container returned by _timeslice_data(start, end) holds exactly
\* the samples of the source's filtered view with start <= timestamp < end:
\* none of them is dropped by the acceptance test of append.
C10_SliceIsExact ==
    (ret.op = "timeslice_data" /\ ret.raised = "") =>
        LET source == ReadRows(c)
            inside == {k \in 1..Len(source) :
                          InInterval(source[k], ret.i1, ret.i2)}
        IN  /\ Len(ret.out_c.raw_datapoints) = Cardinality(inside)
            /\ \A k \in inside :
                   acceptance_tester(c.type, Datapoint(source[k][1], source[k][2]))


---------------------------------------------------------------------------
(* The kept slice *)

\* what the other container must keep: raw list, filter chain, resolution
\* and the arrays a read returns
Untouched(before, after) ==
    /\ after.raw_datapoints = before.raw_datapoints
    /\ after.filters = before.filters
    /\ after.time_resolution = before.time_resolution
    /\ getitem(after, "timestamps").value = getitem(before, "timestamps").value
    /\ getitem(after, "values").value = getitem(before, "values").value

\* C11: a container returned by _timeslice_data has the type and the time
\* resolution of its source, the call leaves the source's raw list, filter
\* chain and resolution as they were, and a later append, add_filter or
\* time_resolution call on one of the two containers leaves the other one's
\* raw list, filter chain, resolution and read results as they were.
C11_SliceIsIndependent ==
    [][/\ (ret'.op = "timeslice_data" /\ ret'.raised = "") =>
              /\ s'.type = c.type
              /\ s'.time_resolution = c.time_resolution
              /\ c'.raw_datapoints = c.raw_datapoints
              /\ c'.filters = c.filters
              /\ c'.time_resolution = c.time_resolution
       /\ (HasSlice /\ ret'.op \in {"append", "add_filter", "time_resolution"}) =>
              Untouched(s, s')
       /\ ret'.op \in {"s.append", "s.add_filter", "s.time_resolution"} =>
              Untouched(c, c')]_vars

---------------------------------------------------------------------------
(* Iteration *)

\* C12: every loop over a container gets the raw samples in insertion
\* order from the first one on and then StopIteration, whatever happened
\* before it: the k-th call of next made by a loop yields the k-th raw
\* sample, and the call after the last sample raises StopIteration.
C12_IterationRestartable ==
    ret.op = "next" =>
        IF ret.i1 <= Len(c.raw_datapoints)
        THEN /\ ret.raised = ""
             /\ ret.out_arr = <<c.raw_datapoints[ret.i1].timestamp,
                                c.raw_datapoints[ret.i1].value>>
        ELSE ret.raised = "StopIteration"

---------------------------------------------------------------------------
(* The filter chain *)

\* the names in the chain of a filter provider
FilterNames(self) == {self.filters[k] : k \in 1..Len(self.filters)}

\* C13: no filter name is in the chain of a filter provider twice;
\* add_filter with a name that is in the chain already changes nothing (the
\* chain, count() and the parameters stored by the first add stay, also
\* when the second call gives other parameters); count() is the number of
\* names in the chain.
C13_ChainHasNoDuplicates ==
    [][/\ \A j, k \in 1..Len(f'.filters) : f'.filters[j] = f'.filters[k] => j = k
       /\ dataset_filter_count(f') = Cardinality(FilterNames(f'))
       /\ (ret'.op = "f.add_filter" /\ ret'.s \in FilterNames(f)) =>
              /\ f'.filters = f.filters
              /\ dataset_filter_count(f') = dataset_filter_count(f)
              /\ ParamsOf(f', ret'.s) = ParamsOf(f, ret'.s)
       /\ ret'.op = "f.count" => ret'.i1 = Cardinality(FilterNames(f'))]_vars

\* add_filter was called for a filter that is in the chain, with other
\* parameters than those the chain holds for it
C13_Witness ==
    /\ ret.op = "f.add_filter"
    /\ ret.s \in FilterNames(f)
    /\ ret.kw # ParamsOf(f, ret.s)

\* C14: add_filter with a name that is not a key of _filter_map raises
\* nothing and leaves the chain, its stored parameters and count() as they
\* were, on the filter provider itself and through the container's
\* add_filter, after which a read returns the arrays it returned before.
C14_UnknownFilterIsNoOp ==
    [][/\ (ret'.op = "f.add_filter" /\ ret'.s \notin FilterMap) =>
              /\ ret'.raised = ""
              /\ f'.filters = f.filters
              /\ f'.filter_params = f.filter_params
              /\ dataset_filter_count(f') = dataset_filter_count(f)
       /\ (ret'.op = "add_filter" /\ ret'.s \notin FilterMap) =>
              /\ ret'.raised = ""
              /\ c'.filters.filters = c.filters.filters
              /\ c'.filters.filter_params = c.filters.filter_params
              /\ dataset_filter_count(c'.filters) = dataset_filter_count(c.filters)
              /\ \A item \in Keys :
                     /\ getitem(c', item).raised = getitem(c, item).raised
                     /\ getitem(c', item).value = getitem(c, item).value]_vars

\* an unknown filter was handed to the add_filter of a container whose
\* chain holds the heartrate filter and changes the values read, while the
\* filter provider on its own holds a filter too
C14_Witness ==
    /\ ret.op = "add_filter"
    /\ ret.s \notin FilterMap
    /\ c.filters.filters = <<"heartrate">>
    /\ getitem(c, "values").value # RawValues(c.raw_datapoints)
    /\ f.filters # <<>>

\* C15: calling the filter provider leaves the arrays of the caller as
\* they were, so that a second call with the same arrays gives what the
\* first call gave.
C15_ChainIsPure ==
    [][ret'.op = "f.call" =>
          /\ arr' = arr
          /\ ret.op = "f.call" => ret'.out = ret.out]_vars

---------------------------------------------------------------------------
(* The heartrate filter *)

\* the delta_doublefilter a provider calls _filter_hr with
DeltaOf(self) ==
    LET given == {p \in ParamsOf(self, "heartrate") : p[1] = "delta_doublefilter"}
    IN  IF given = {} THEN DefaultDelta ELSE (CHOOSE p \in given : TRUE)[2]

\* the test of _filter_hr at index i: half the given value is nearer than
\* delta to the left neighbour as the pass left it and to the right
\* neighbour as it was given
BothClose(given, returned, i, delta) ==
    /\ Abs(given[i] - 2 * returned[i - 1]) < 2 * delta
    /\ Abs(given[i] - 2 * given[i + 1]) < 2 * delta

\* what every call of the heartrate filter keeps: the timestamps, the
\* length, the first and the last value, and arrays of less than 3 values
HrFrame(given, returned) ==
    /\ ret.out.timestamps = MinuteStamps(Len(given))
    /\ Len(returned) = Len(given)
    /\ Len(given) >= 1 => /\ returned[1] = given[1]
                          /\ returned[Len(given)] = given[Len(given)]
    /\ Len(given) < 3 => returned = given

\* C17 as stated: at every interior index the value is replaced by its
\* half values[i]/2 if and only if that half is nearer than delta to both
\* neighbours, and stays otherwise; first and last value, timestamps and
\* length stay, and so do arrays of less than 3 values.
C17_HalvedIffBothClose ==
    (ret.op = "f.call" /\ f.filters = <<"heartrate">>) =>
        /\ HrFrame(ret.in_arr, ret.out.values)
        /\ \A i \in 2..(Len(ret.in_arr) - 1) :
               IF BothClose(ret.in_arr, ret.out.values, i, DeltaOf(f))
               THEN 2 * ret.out.values[i] = ret.in_arr[i]
               ELSE ret.out.values[i] = ret.in_arr[i]

\* C17, amended: at every interior index the value is replaced if and only
\* if its exact half is nearer than delta to both neighbours, and what is
\* stored in the integer array is the half without its fraction; first and
\* last value, timestamps and length stay, and so do arrays of less than 3
\* values.
C17_HalvedTruncated ==
    (ret.op = "f.call" /\ f.filters = <<"heartrate">>) =>
        /\ HrFrame(ret.in_arr, ret.out.values)
        /\ \A i \in 2..(Len(ret.in_arr) - 1) :
               IF BothClose(ret.in_arr, ret.out.values, i, DeltaOf(f))
               THEN ret.out.values[i] = HalveInPlace(ret.in_arr[i])
               ELSE ret.out.values[i] = ret.in_arr[i]

\* the filter with the default delta was called on four values, halved an
\* odd one and kept the other interior one
C17_Witness ==
    /\ ret.op = "f.call"
    /\ f.filters = <<"heartrate">>
    /\ DeltaOf(f) = DefaultDelta
    /\ Len(ret.in_arr) = 4
    /\ \E i, j \in 2..3 :
           /\ ret.in_arr[i] % 2 = 1
           /\ ret.out.values[i] = HalveInPlace(ret.in_arr[i])
           /\ ret.out.values[j] = ret.in_arr[j]

---------------------------------------------------------------------------
\* C16: no operation of the container changes a stored raw sample.  In
\* every step of a container that is filled, filtered (heartrate), read,
\* sliced and downsampled, each raw sample stays at its place with the
\* timestamp and the value it has, and a sample that a step adds is the
\* appended <<timestamp, value>>; the filter works on fresh arrays, so the
\* cache may differ from the raw list while the raw list stays.
C16_RawSamplesKept ==
    [][/\ Len(c'.raw_datapoints) >= Len(c.raw_datapoints)
       /\ \A k \in 1..Len(c.raw_datapoints) :
              /\ c'.raw_datapoints[k].timestamp = c.raw_datapoints[k].timestamp
              /\ c'.raw_datapoints[k].value = c.raw_datapoints[k].value
       /\ \A k \in (Len(c.raw_datapoints) + 1)..Len(c'.raw_datapoints) :
              /\ ret'.op = "append"
              /\ c'.raw_datapoints[k].timestamp = ret'.i1
              /\ c'.raw_datapoints[k].value = ret'.i2]_vars

\* a downsampling call on a container whose heartrate filter has halved a
\* value in the cache while the raw list still holds the appended value
C16_Witness ==
    /\ ret.op = "downsample"
    /\ InFilters(c.filters, "heartrate")
    /\ c.data_up_to_date
    /\ Len(c.raw_datapoints) = 3
    /\ \E k \in 1..Len(c.raw_datapoints) :
           c.filtered_data.values[k] # c.raw_datapoints[k].value

---------------------------------------------------------------------------
\* the values of the rows whose timestamps lie in [cur, cur + r)
WindowValues(timestamps, values, cur, r) ==
    SelectSeq([k \in 1..Len(values) |-> <<timestamps[k], values[k]>>],
              LAMBDA row : row[1] >= cur /\ row[1] < cur + r)

\* the pairs the claim expects of downsample(func) for filtered data that
\* is not empty and a resolution r
ExpectedWindows(func, timestamps, values, r) ==
    LET start == SeqMin(timestamps)
        n     == (SeqMax(timestamps) - start) \div r + 1
    IN  [timestamps |-> [k \in 1..n |-> start + (k - 1) * r],
         values |-> [k \in 1..n |->
             Reduce(func, [j \in 1..Len(WindowValues(timestamps, values,
                                                     start + (k - 1) * r, r))
                             |-> WindowValues(timestamps, values,
                                              start + (k - 1) * r, r)[j][2]])]]

\* two fractions that are the same number
SameNumber(a, b) == a[2] # 0 /\ b[2] # 0 /\ a[1] * b[2] = b[1] * a[2]

\* two arrays of results that hold the same numbers, nan where nan
SameNumbers(a, b) ==
    /\ Len(a) = Len(b)
    /\ \A k \in 1..Len(a) : (a[k] = NaN /\ b[k] = NaN) \/ SameNumber(a[k], b[k])

\* C18: downsample with mean, median or sum on a container whose filtered
\* data is not empty returns one pair per window starting at
\* timestamp_start() + k * r while the start is <= timestamp_end(), in
\* increasing order, and the value of a pair is the function applied to the
\* filtered values with timestamps in [cur, cur + r), also for a window
\* without samples; for the values 1..11 at consecutive minutes and r of
\* five minutes the sum is 15, 40, 11 and mean and median are 3, 8, 11 at
\* minutes 0, 5, 10.
C18_DownsampleWindows ==
    (ret.op = "downsample" /\ ret.s \in Funcs
     /\ c.filtered_data.timestamps # <<>>)
    => /\ ret.raised = ""
       /\ ~c.time_resolution.isNone
       /\ c.time_resolution.td > 0
       /\ ret.out.timestamps =
              ExpectedWindows(ret.s, c.filtered_data.timestamps,
                              c.filtered_data.values,
                              c.time_resolution.td).timestamps
       /\ SameNumbers(ret.out.values,
                      ExpectedWindows(ret.s, c.filtered_data.timestamps,
                                      c.filtered_data.values,
                                      c.time_resolution.td).values)
       /\ (c.raw_datapoints = Fixture.raw_datapoints
           /\ c.time_resolution = Fixture.time_resolution
           /\ c.filters = Fixture.filters)
          => /\ ret.out.timestamps = <<0, 5 * OneMinute, 10 * OneMinute>>
             /\ Len(ret.out.values) = 3
             /\ \A k \in 1..3 :
                    SameNumber(ret.out.values[k],
                               IF ret.s = "sum"
                               THEN <<(<<15, 40, 11>>)[k], 1>>
                               ELSE <<(<<3, 8, 11>>)[k], 1>>)

---------------------------------------------------------------------------
\* the calls that reduce the series or build a histogram of it
IsReduction(op) ==
    op \in {"timestamp_start", "timestamp_end", "timerange", "downsample",
            "downsample_histogram"}

\* C19 as stated: on a container without filtered samples every reduction
\* or histogram call (timestamp_start, timestamp_end, timerange, downsample
\* with mean, median, sum and "none", downsample_histogram) fails with the
\* error of the empty series and returns nothing.
C19_EveryReductionFails ==
    (IsReduction(ret.op) /\ c.filtered_data.timestamps = <<>>
     /\ c.data_up_to_date)
    => ret.raised = "ValueError"

\* C19: on a container without filtered samples timestamp_start,
\* timestamp_end, timerange, downsample with mean, median and sum and
\* downsample_histogram raise ValueError (no minimum or maximum of an empty
\* series) and return nothing, while downsample with "none" raises nothing
\* and returns empty timestamp and value arrays.
C19_EmptyFailsButNone ==
    (IsReduction(ret.op) /\ c.filtered_data.timestamps = <<>>
     /\ c.data_up_to_date)
    => IF ret.op = "downsample" /\ ret.s = "none"
       THEN /\ ret.raised = ""
            /\ ret.out = NoOut
       ELSE /\ ret.raised = "ValueError"
            /\ ret.out = NoOut
            /\ ret.out_arr = <<>>

\* downsample_histogram with the default arguments on a container without
\* samples
C19_Witness ==
    /\ ret.op = "downsample_histogram"
    /\ ret.td = None
    /\ c.raw_datapoints = <<>>
    /\ ret.raised = "ValueError"

---------------------------------------------------------------------------
\* hist_min or hist_max as the call uses it: the given number, or the
\* bound computed from the filtered values when None was given
HistBound(given, computed) ==
    IF given.isNone THEN int_div10_times10(computed) ELSE given.td

\* C20: downsample_histogram on a container whose filtered data is not
\* empty returns a timestamp axis with one element more than the histogram
\* has rows; the elements before the last are the window starts of
\* downsample, the last one is timestamp_end() (a duplicate of the last
\* window start when timestamp_end() lies on a window boundary); the bin
\* edges start at hist_min, step by resolution and are all the steps
\* strictly less than hist_max.
C20_HistogramAxes ==
    (ret.op = "downsample_histogram" /\ c.filtered_data.timestamps # <<>>)
    => /\ ret.raised = ""
       /\ ~c.time_resolution.isNone
       /\ c.time_resolution.td > 0
       /\ Len(ret.out.timestamps) = Len(ret.out.histogram) + 1
       /\ SubSeq(ret.out.timestamps, 1, Len(ret.out.histogram)) =
              ExpectedWindows("sum", c.filtered_data.timestamps,
                              c.filtered_data.values,
                              c.time_resolution.td).timestamps
       /\ ret.out.timestamps[Len(ret.out.timestamps)] =
              SeqMax(c.filtered_data.timestamps)
       /\ Len(ret.out.bins) >= 1
       /\ \A k \in 1..Len(ret.out.bins) :
              /\ ret.out.bins[k] =
                     HistBound(ret.td, SeqMin(c.filtered_data.values))
                     + (k - 1) * ret.i1
              /\ ret.out.bins[k] <
                     HistBound(ret.out_td, SeqMax(c.filtered_data.values))
       /\ ret.out.bins[Len(ret.out.bins)] + ret.i1 >=
              HistBound(ret.out_td, SeqMax(c.filtered_data.values))

---------------------------------------------------------------------------
\* a fraction that is a number of [0, 1]
InUnitInterval(x) == x[2] > 0 /\ 0 <= x[1] /\ x[1] <= x[2]

\* C21: in the result of downsample_histogram every row is peak-normalized:
\* all entries of a row lie in [0, 1] and its largest entry is exactly 1,
\* also for a window without samples or with values outside the bins.
C21_RowsPeakNormalized ==
    (ret.op = "downsample_histogram" /\ ret.raised = "")
    => \A w \in 1..Len(ret.out.histogram) :
           /\ \A j \in 1..Len(ret.out.histogram[w]) :
                  InUnitInterval(ret.out.histogram[w][j])
           /\ \E j \in 1..Len(ret.out.histogram[w]) :
                  SameNumber(ret.out.histogram[w][j], <<1, 1>>)

---------------------------------------------------------------------------
\* the largest multiple of 10 that is not above x
FloorTen(x) == CHOOSE m \in {10 * k : k \in -20..20} : m <= x /\ x < m + 10

\* x cut toward zero to a multiple of 10
TowardZeroTen(x) == IF x >= 0 THEN FloorTen(x) ELSE -FloorTen(-x)

\* the bin edges of a returned histogram whose bounds left out are rounded
\* by round10
BinsFrom(lo, hi) ==
    arange(IF ret.td.isNone THEN lo ELSE ret.td.td,
           IF ret.out_td.isNone THEN hi ELSE ret.out_td.td, ret.i1)

---------------------------------------------------------------------------
\* C23: a read with a key other than 'timestamps', 0, 'values', 1 raises
\* IndexError in every state of the container and leaves the raw list, the
\* filter chain and the resolution as they were; a read with one of the
\* four keys raises nothing, key 0 and 'timestamps' return the filter chain
\* applied to the raw timestamps, key 1 and 'values' the filtered values.
C23_InvalidKeyFails ==
    [][ret'.op = "getitem" =>
          /\ c'.raw_datapoints = c.raw_datapoints
          /\ c'.filters = c.filters
          /\ c'.time_resolution = c.time_resolution
          /\ IF ret'.s \in {"timestamps", "0"}
             THEN /\ ret'.raised = ""
                  /\ ret'.out_arr = FilterChainOfRaw(c).timestamps
             ELSE IF ret'.s \in {"values", "1"}
             THEN /\ ret'.raised = ""
                  /\ ret'.out_arr = FilterChainOfRaw(c).values
             ELSE /\ ret'.raised = "IndexError"
                  /\ ret'.out_arr = <<>>]_vars

\* a read with an invalid key on a filled container with a filter and a
\* stale cache
C23_Witness ==
    /\ ret.op = "getitem"
    /\ ret.s = "time"
    /\ ret.raised = "IndexError"
    /\ ret.ncalls = 1
    /\ Len(c.raw_datapoints) = 2
    /\ InFilters(c.filters, "heartrate")

---------------------------------------------------------------------------
\* C24: ts, val = dp gives exactly two items, the timestamp and then the
\* value, every time it is done on the same datapoint, whatever iteration
\* over the datapoint came before (a whole one or one stopped after an
\* item).
C24_DestructuringRepeatable ==
    [][ret'.op = "dp.unpack" =>
          /\ ret'.raised = ""
          /\ ret'.out_arr = <<pt.timestamp, pt.value>>]_vars

---------------------------------------------------------------------------
\* C25: a mutation updates the cache at the time of the call: right after
\* an accepted append and right after add_filter, before any read, the
\* cached arrays are the filter chain applied to the raw samples of that
\* moment.
C25_CacheUpdatedByMutation ==
    [][(\/ /\ ret'.op = "append"
           /\ acceptance_tester(c.type, Datapoint(ret'.i1, ret'.i2))
        \/ ret'.op = "add_filter")
       => c'.filtered_data = FilterChainOfRaw(c')]_vars

---------------------------------------------------------------------------
\* the window [cur, cur + r) holds no filtered sample
WindowEmpty(self, cur, r) ==
    \A k \in 1..Len(self.filtered_data.timestamps) :
        ~(self.filtered_data.timestamps[k] >= cur
          /\ self.filtered_data.timestamps[k] < cur + r)

\* timestamp_end() = timestamp_start() + k * resolution for a k >= 1
EndOnBoundary(self) ==
    /\ SeqMax(self.filtered_data.timestamps) > SeqMin(self.filtered_data.timestamps)
    /\ (SeqMax(self.filtered_data.timestamps)
          - SeqMin(self.filtered_data.timestamps)) % self.time_resolution.td = 0

---------------------------------------------------------------------------
\* C27: on integer values the heartrate filter stores the half of a
\* corrected value without its fraction (an odd v becomes (v - 1)/2, 101
\* becomes 50), while the delta test is made with the exact half v/2; the
\* values of test_heartrate_filter become 50, 52, 51, 50, 53, 52, 50, 106,
\* 51, 52 with the default delta: 101 is halved, 106 stays.
C27_StoredHalfIsCut ==
    (ret.op = "f.call" /\ f.filters = <<"heartrate">>) =>
        /\ \A i \in 2..(Len(ret.in_arr) - 1) :
               /\ BothClose(ret.in_arr, ret.out.values, i, DeltaOf(f))
                      => /\ ret.in_arr[i] % 2 = 1
                             => 2 * ret.out.values[i] + 1 = ret.in_arr[i]
                         /\ ret.in_arr[i] % 2 = 0
                             => 2 * ret.out.values[i] = ret.in_arr[i]
               /\ ret.out.values[i] # ret.in_arr[i]
                      => BothClose(ret.in_arr, ret.out.values, i, DeltaOf(f))
        /\ (ret.in_arr = TestValues /\ DeltaOf(f) = DefaultDelta)
               => ret.out.values = <<50, 52, 51, 50, 53, 52, 50, 106, 51, 52>>

\* the filter with the default delta was called on the values of
\* test_heartrate_filter: 101 became 50 and 106 stayed
C27_Witness ==
    /\ ret.op = "f.call"
    /\ f.filters = <<"heartrate">>
    /\ DeltaOf(f) = DefaultDelta
    /\ ret.in_arr = TestValues
    /\ ret.out.values[4] = 50
    /\ ret.out.values[8] = 106

---------------------------------------------------------------------------
\* C28: every downsample call (mean, median, sum, histogram) on a container
\* that is not empty terminates, for every time resolution the container
\* can hold, one given to the constructor included: each iteration of the
\* loop moves cur_time forward, and the loop that was entered runs until
\* cur_time is beyond timestamp_end() and the call returns.
C28_LoopRunsToEnd ==
    /\ [][(ret.op = "loop" /\ ret'.op = "loop") => ret'.i1 > ret.i1]_vars
    /\ (ret.op = "loop") ~> (/\ ret.op = "loop.end"
                             /\ ret.raised = ""
                             /\ ret.i1 > SeqMax(c.filtered_data.timestamps))

---------------------------------------------------------------------------
\* the filtered values of self with timestamps in [t_start, t_end)
FilteredInside(self, t_start, t_end) ==
    LET rows == WindowValues(self.filtered_data.timestamps,
                             self.filtered_data.values, t_start, t_end - t_start)
    IN  [k \in 1..Len(rows) |-> rows[k][2]]

\* C29: the container returned by _timeslice_data has an empty filter
\* chain, also when its source has filters, so the source's filter is
\* applied once: reading the slice returns the source's filtered values of
\* the interval unchanged, and every window of a downsample call is
\* computed from the source's filtered values of the window.
C29_FilteredOnce ==
    /\ (ret.op = "timeslice_data" /\ ret.raised = "") =>
           /\ ret.out_c.filters.filters = <<>>
           /\ getitem(ret.out_c, "values").value = FilteredInside(c, ret.i1, ret.i2)
    /\ (ret.op = "downsample" /\ ret.raised = ""
        /\ c.filtered_data.timestamps # <<>>) =>
           SameNumbers(ret.out.values,
                       ExpectedWindows(ret.s, c.filtered_data.timestamps,
                                       c.filtered_data.values,
                                       c.time_resolution.td).values)

---------------------------------------------------------------------------
\* the test of _filter_hr at index i with both neighbours as they were
\* given
BothCloseGiven(given, i, delta) ==
    /\ Abs(given[i] - 2 * given[i - 1]) < 2 * delta
    /\ Abs(given[i] - 2 * given[i + 1]) < 2 * delta

\* index i - 1 was corrected, and the test at index i holds although it
\* fails with the given neighbours
EnabledAt(given, returned, i, delta) ==
    /\ returned[i - 1] # given[i - 1]
    /\ BothClose(given, returned, i, delta)
    /\ ~BothCloseGiven(given, i, delta)

\* index i - 1 was corrected, and the test at index i fails although it
\* holds with the given neighbours
DisabledAt(given, returned, i, delta) ==
    /\ returned[i - 1] # given[i - 1]
    /\ ~BothClose(given, returned, i, delta)
    /\ BothCloseGiven(given, i, delta)

\* one pass from left to right: index i is tested with the left neighbour
\* as returned and the right neighbour as given
OnePass(given, returned, delta) ==
    /\ Len(returned) = Len(given)
    /\ \A i \in 2..(Len(given) - 1) :
           returned[i] = IF BothClose(given, returned, i, delta)
                         THEN HalveInPlace(given[i])
                         ELSE given[i]
    /\ (given = <<5, 10, 6, 3>> /\ delta = DefaultDelta) => returned = <<5, 5, 3, 3>>

=============================================================================
